---- MODULE Spec2Model ----
(***************************************************************************)
(* The useFetchData custom hook (README.md, "src/hooks/useFetchData.js")   *)
(* and its consumer Users.jsx, as a state machine.                         *)
(*                                                                         *)
(* The hook keeps three pieces of React state (data, loading, error) and   *)
(* an async function fetchData.  One call of fetchData is an "attempt":    *)
(* it runs synchronously up to `await fetch(url, options)`, resumes when   *)
(* the transport responds or fails, and, for an OK response, suspends once *)
(* more at `await response.json()`.  JavaScript is single threaded, so     *)
(* every stretch between two awaits is one atomic action here.             *)
(***************************************************************************)
EXTENDS Naturals, Sequences, FiniteSets

VARIABLES
    url,             \* the locator argument of the latest render
    optionsArg,      \* the options argument the consumer passes (undefined if none)
    data,            \* useState(null)
    loading,         \* useState(true)
    error,           \* useState(null)
    attempts,        \* every call of fetchData so far, in call order
    completed,       \* ids of the attempts that ran their finally block, in order
    effectPending,   \* the effect of the latest commit has not run yet
    renders,         \* number of re-renders with new arguments
    nRefetch,        \* number of calls of refetch by the consumer
    nLocatorChanges, \* number of re-renders that changed url
    unhandled        \* attempts whose promise was rejected (exception escaped)

vars == <<url, optionsArg, data, loading, error, attempts, completed,
          effectPending, renders, nRefetch, nLocatorChanges, unhandled>>

----------------------------------------------------------------------------
(* Bounds of the model *)

MaxAttempts == 2
MaxRenders == 1
MaxRefresh == 2

----------------------------------------------------------------------------
(* JavaScript values.  Each value is a record tagged with its type, so     *)
(* that null, undefined, the empty string and objects stay distinct.       *)

Null == [t |-> "null"]
Undefined == [t |-> "undefined"]
Str(s) == [t |-> "string", s |-> s]
ErrorObj(m) == [t |-> "Error", message |-> Str(m)]
EmptyObject == [t |-> "object", keys |-> {}]
PostOptions == [t |-> "object", keys |-> {"method"}]

IsNullish(v) == v.t \in {"null", "undefined"}

\* JavaScript truthiness, as used by `if (loading)` and `if (error)`.
Truthy(v) ==
    CASE v.t = "null" -> FALSE
      [] v.t = "undefined" -> FALSE
      [] v.t = "string" -> v.s # ""
      [] OTHER -> TRUE

----------------------------------------------------------------------------
(* The environment: locators, responses, payloads, thrown values *)

UsersUrl == "https://jsonplaceholder.typicode.com/users"
OtherUrl == "https://jsonplaceholder.typicode.com/posts"
Urls == {UsersUrl, OtherUrl}

\* What a caller may pass as `options`.
OptionArgs == {Undefined, PostOptions}

\* A response: fetch sets `ok` exactly for the statuses 200..299.
Responses == {[status |-> s, ok |-> (s >= 200 /\ s <= 299)] : s \in {200, 404, 500}}

\* The decoded body of a resource: the list it holds, which may differ
\* from one request to the next (two versions of it).
Versions == {"v1", "v2"}
List(u, v) == [t |-> "array", from |-> u, version |-> v]
PayloadsOf(u) == {List(u, v) : v \in Versions}

\* Values fetch() or response.json() may reject with: an Error with a
\* message, an Error with an empty message, an abort reason that is a
\* primitive string (no `message` property), an abort reason of null.
NetworkMsg == "Failed to fetch"
Thrown == {ErrorObj(NetworkMsg), ErrorObj(""), Str("aborted"), Null}

----------------------------------------------------------------------------
(* Pieces of useFetchData *)

\* function useFetchData(url, options = {}): the default applies to undefined only.
DefaultOptions(arg) == IF arg = Undefined THEN EmptyObject ELSE arg

\* Mutant: fetchData without its leading setLoading(true).
StartLoadingSkipped(cur) == cur

\* setLoading(true) at the top of fetchData.
StartLoading(cur) == TRUE

\* throw new Error("Failed to fetch data")
FixedMsg == "Failed to fetch data"

\* Mutant: the error of a rejected response carries the status text.
NotOkErrorStatusText(response) ==
    ErrorObj(IF response.status = 404 THEN "Not Found" ELSE "Internal Server Error")

NotOkError(response) == ErrorObj(FixedMsg)

\* `if (!response.ok) throw ...`
Rejected(response) == ~response.ok

\* Mutant: the catch block stores a fixed text instead of err.message.
MessageOfGeneric(err) == Str("Something went wrong")

\* err.message, for a value that is not null or undefined.
MessageOf(err) == IF err.t = "Error" THEN err.message ELSE Undefined

\* Mutant: useEffect without a dependency list (runs after every commit).
EffectEveryCommit(prevUrl, nextUrl) == TRUE

\* Mutant: useEffect with the dependency list [] (runs after the first commit only).
EffectOnMountOnly(prevUrl, nextUrl) == FALSE

\* useEffect(() => { fetchData(); }, [url]): the effect runs after the
\* first commit and after every commit whose url differs from the previous one.
EffectDue(prevUrl, nextUrl) == prevUrl # nextUrl

\* Mutant: setData that appends the new list to the one already stored.
StoredDataAppended(cur, result) ==
    IF cur.t = "array"
       THEN [t |-> "array", from |-> result.from, version |-> "appended"]
       ELSE result

\* setData(result): the decoded payload replaces what was stored.
StoredData(cur, result) == result

Pending == [kind |-> "pending"]
None == [status |-> 0, ok |-> FALSE]

\* Mutant: fetchData that returns at once while a request is loading
\* (de-duplication): the call then starts no attempt.
fetchDataDeduplicated ==
    IF loading
       THEN UNCHANGED <<loading, attempts, data, error, completed, unhandled>>
       ELSE /\ loading' = TRUE
            /\ attempts' = Append(attempts,
                   [url |-> url, options |-> DefaultOptions(optionsArg),
                    pc |-> "awaitFetch", response |-> None, outcome |-> Pending])
            /\ UNCHANGED <<data, error, completed, unhandled>>

\* fetchData up to its first await: setLoading(true); fetch(url, options).
\* An attempt records the request it issued, the response it got (None
\* until fetch resolves), where it is suspended and how it ended.
fetchData ==
    /\ loading' = StartLoading(loading)
    /\ attempts' = Append(attempts,
           [url |-> url, options |-> DefaultOptions(optionsArg),
            pc |-> "awaitFetch", response |-> None, outcome |-> Pending])
    /\ UNCHANGED <<data, error, completed, unhandled>>

\* Mutant: setLoading(false) on the success path only (no finally block).
CatchWithoutFinally(i, err, response, out) ==
    /\ IF IsNullish(err)
          THEN /\ error' = error
               /\ unhandled' = unhandled \cup {i}
          ELSE /\ error' = MessageOf(err)
               /\ unhandled' = unhandled
    /\ attempts' = [attempts EXCEPT ![i].pc = "done", ![i].response = response,
                                    ![i].outcome = out]
    /\ completed' = Append(completed, i)
    /\ UNCHANGED <<data, loading>>

\* The catch block followed by the finally block, for attempt i and the
\* caught value err.  `err.message` on null or undefined throws a TypeError
\* out of the catch block: the finally block still runs and the promise of
\* fetchData is rejected.
CatchFinally(i, err, response, out) ==
    /\ IF IsNullish(err)
          THEN /\ error' = error
               /\ unhandled' = unhandled \cup {i}
          ELSE /\ error' = MessageOf(err)
               /\ unhandled' = unhandled
    /\ loading' = FALSE
    /\ attempts' = [attempts EXCEPT ![i].pc = "done", ![i].response = response,
                                    ![i].outcome = out]
    /\ completed' = Append(completed, i)
    /\ UNCHANGED data

----------------------------------------------------------------------------
(* Actions *)

Init ==
    /\ url \in Urls
    /\ optionsArg \in OptionArgs
    /\ data = Null
    /\ loading = TRUE
    /\ error = Null
    /\ attempts = << >>
    /\ completed = << >>
    /\ effectPending = TRUE
    /\ renders = 0
    /\ nRefetch = 0
    /\ nLocatorChanges = 0
    /\ unhandled = {}

\* The effect of the latest commit runs: fetchData().
RunEffect ==
    /\ effectPending
    /\ fetchData
    /\ effectPending' = FALSE
    /\ UNCHANGED <<url, optionsArg, renders, nRefetch, nLocatorChanges>>

\* The consumer calls refetch (the fetchData of the latest render).  The
\* bound on the number of attempts leaves room for the effect still to run.
Refetch ==
    /\ Len(attempts) + (IF effectPending THEN 1 ELSE 0) < MaxAttempts
    /\ fetchData
    /\ nRefetch' = nRefetch + 1
    /\ UNCHANGED <<url, optionsArg, effectPending, renders, nLocatorChanges>>

\* The consumer renders the hook again with locator u (and the options it
\* always passes).  React runs the effects of a commit before it renders again.
Rerender(u) ==
    /\ renders < MaxRenders
    /\ ~effectPending
    /\ u # url => Len(attempts) < MaxAttempts
    /\ url' = u
    /\ effectPending' = EffectDue(url, u)
    /\ renders' = renders + 1
    /\ nLocatorChanges' = IF u # url THEN nLocatorChanges + 1 ELSE nLocatorChanges
    /\ UNCHANGED <<optionsArg, data, loading, error, attempts, completed,
                   nRefetch, unhandled>>

\* fetch() of attempt i resolves with a response.
FetchResponds(i, response) ==
    /\ attempts[i].pc = "awaitFetch"
    /\ IF Rejected(response)
          THEN CatchFinally(i, NotOkError(response), response, [kind |-> "notOk"])
          ELSE /\ attempts' = [attempts EXCEPT ![i].pc = "awaitJson",
                                               ![i].response = response]
               /\ UNCHANGED <<data, loading, error, completed, unhandled>>
    /\ UNCHANGED <<url, optionsArg, effectPending, renders, nRefetch, nLocatorChanges>>

\* fetch() of attempt i rejects with err.
FetchRejects(i, err) ==
    /\ attempts[i].pc = "awaitFetch"
    /\ CatchFinally(i, err, attempts[i].response, [kind |-> "thrown", value |-> err])
    /\ UNCHANGED <<url, optionsArg, effectPending, renders, nRefetch, nLocatorChanges>>

\* response.json() of attempt i resolves with result: setData(result), finally.
JsonResolves(i, result) ==
    /\ attempts[i].pc = "awaitJson"
    /\ data' = StoredData(data, result)
    /\ loading' = FALSE
    /\ attempts' = [attempts EXCEPT ![i].pc = "done",
                                    ![i].outcome = [kind |-> "ok", value |-> result]]
    /\ completed' = Append(completed, i)
    /\ UNCHANGED <<error, unhandled>>
    /\ UNCHANGED <<url, optionsArg, effectPending, renders, nRefetch, nLocatorChanges>>

\* response.json() of attempt i rejects with err.
JsonRejects(i, err) ==
    /\ attempts[i].pc = "awaitJson"
    /\ CatchFinally(i, err, attempts[i].response, [kind |-> "thrown", value |-> err])
    /\ UNCHANGED <<url, optionsArg, effectPending, renders, nRefetch, nLocatorChanges>>

Next ==
    \/ RunEffect
    \/ Refetch
    \/ \E u \in Urls : Rerender(u)
    \/ \E i \in DOMAIN attempts, r \in Responses : FetchResponds(i, r)
    \/ \E i \in DOMAIN attempts, e \in Thrown : FetchRejects(i, e)
    \/ \E i \in DOMAIN attempts : \E p \in PayloadsOf(attempts[i].url) : JsonResolves(i, p)
    \/ \E i \in DOMAIN attempts, e \in Thrown : JsonRejects(i, e)

Spec == Init /\ [][Next]_vars

----------------------------------------------------------------------------
(* The consumer Users.jsx: useFetchData with a fixed locator and no        *)
(* options; refetch is the onClick of the button of the list view.         *)

\* if (loading) return ...; if (error) return ...; return <div>...</div>
UsersBranch ==
    IF loading THEN "loading" ELSE IF Truthy(error) THEN "error" ELSE "list"

\* Mutant: the refresh button rendered in every view.
RefreshShownAlways == TRUE

\* <button onClick={refetch}> is part of the list view; the list view
\* renders only if data.map does not throw (data is a list).
RefreshShown == UsersBranch = "list" /\ data.t = "array"

UsersInit ==
    /\ Init
    /\ url = UsersUrl
    /\ optionsArg = Undefined

\* The user clicks the refresh button.
UsersRefresh ==
    /\ RefreshShown
    /\ nRefetch < MaxRefresh
    /\ fetchData
    /\ nRefetch' = nRefetch + 1
    /\ UNCHANGED <<url, optionsArg, effectPending, renders, nLocatorChanges>>

\* The parent renders Users again: the locator is the same literal.
UsersRerender == Rerender(UsersUrl)

UsersNext ==
    \/ RunEffect
    \/ UsersRefresh
    \/ UsersRerender
    \/ \E i \in DOMAIN attempts, r \in Responses : FetchResponds(i, r)
    \/ \E i \in DOMAIN attempts, e \in Thrown : FetchRejects(i, e)
    \/ \E i \in DOMAIN attempts : \E p \in PayloadsOf(attempts[i].url) : JsonResolves(i, p)
    \/ \E i \in DOMAIN attempts, e \in Thrown : JsonRejects(i, e)

UsersSpec == UsersInit /\ [][UsersNext]_vars

\* The transport answers the request of attempt i, or its body is read:
\* the continuation of the attempt runs.
Progress(i) ==
    /\ i \in DOMAIN attempts
    /\ \/ \E r \in Responses : FetchResponds(i, r)
       \/ \E e \in Thrown : FetchRejects(i, e)
       \/ \E p \in PayloadsOf(attempts[i].url) : JsonResolves(i, p)
       \/ \E e \in Thrown : JsonRejects(i, e)

\* Scheduling: React runs the effects of every commit, and the transport
\* eventually responds or fails for every request (fetch has no timeout and
\* the hook has no cancellation, so a continuation that can run does run).
LiveSpec ==
    /\ Spec
    /\ WF_vars(RunEffect)
    /\ \A i \in 1..MaxAttempts : WF_vars(Progress(i))

----------------------------------------------------------------------------
(* Vocabulary of the properties *)

Ids == DOMAIN attempts
Outstanding == {i \in Ids : attempts[i].pc # "done"}
Settled(i) == attempts[i].pc = "done"
LastId == completed[Len(completed)]
Last == attempts[LastId]

\* Position of attempt i in the order of completion.
DoneAt(i) == CHOOSE k \in DOMAIN completed : completed[k] = i

\* "non-null" in the sense of `x != null`.
NonNull(v) == ~IsNullish(v)

Succeeded(o) == o.kind = "ok"
Failed(o) == o.kind \in {"notOk", "thrown"}

\* The response of attempt i was received and its ok flag is false.
GotNotOk(a) == a.response # None /\ ~a.response.ok

\* Attempt i runs its finally block in this step.
Completes(i) == attempts[i].pc # "done" /\ attempts'[i].pc = "done"

\* A thrown value with no message text: no message at all, or an empty one.
NoMessageText(e) == IsNullish(e) \/ ~Truthy(IF e.t = "Error" THEN e.message ELSE Undefined)

----------------------------------------------------------------------------
(* C1 *)

\* C1: data and error are never both non-null; data is non-null only when
\* the last settled attempt succeeded, error is non-null only when it failed.
C1_ValueFailureExclusive ==
    /\ ~(NonNull(data) /\ NonNull(error))
    /\ NonNull(data) => (completed # << >> /\ Succeeded(Last.outcome))
    /\ NonNull(error) => (completed # << >> /\ Failed(Last.outcome))

(* C2 *)

\* C2: whenever the attempt that completed last got an OK response that
\* decoded and no attempt is outstanding, loading is false, data is that
\* attempt's payload and error is null, whatever earlier attempts did.
C2_SuccessSettlesSucceeded ==
    (completed # << >> /\ Outstanding = {} /\ Succeeded(Last.outcome)) =>
        (loading = FALSE /\ data = Last.outcome.value /\ error = Null)

(* C3 *)

\* C3: an attempt whose response has ok = false never decodes the body (it
\* is never suspended at response.json()), and the step that completes it
\* leaves error = "Failed to fetch data", whatever the status, and
\* loading = false.
C3_NotOkNeverDecoded ==
    \A i \in Ids : GotNotOk(attempts[i]) =>
        (attempts[i].pc = "done" /\ attempts[i].outcome.kind = "notOk")

C3_NotOkStep ==
    \A i \in Ids : \A r \in Responses :
        (attempts[i].pc = "awaitFetch" /\ ~r.ok /\ attempts'[i].response = r) =>
            /\ attempts'[i].pc = "done"
            /\ error' = Str("Failed to fetch data")
            /\ loading' = FALSE

\* C3: a response with ok = false is never decoded, and completing its
\* attempt leaves error = "Failed to fetch data" and loading = false.
C3_NotOkFixedMessage == []C3_NotOkNeverDecoded /\ [][C3_NotOkStep]_vars

C3_Witness ==
    /\ Len(attempts) = 2
    /\ attempts[1].pc = "done" /\ attempts[2].pc = "done"
    /\ attempts[1].response.status = 404 /\ attempts[2].response.status = 500
    /\ error = Str(FixedMsg)
    /\ loading = FALSE

(* C4 *)

\* C4: when the request or the decode of an attempt throws an Error with
\* message m, the step that completes the attempt leaves error = m and
\* loading = false, and the promise of that attempt is not rejected.
C4_ThrownStep ==
    \A i \in Ids :
        (/\ Completes(i)
         /\ attempts'[i].outcome.kind = "thrown"
         /\ attempts'[i].outcome.value.t = "Error") =>
            /\ error' = attempts'[i].outcome.value.message
            /\ loading' = FALSE
            /\ i \notin unhandled'

\* C4: an Error thrown by the request or the decode is caught inside the
\* attempt; completing it leaves error = its message and loading = false.
C4_MessageVerbatim == [][C4_ThrownStep]_vars

\* One attempt threw at the request, another at the decode; the message of
\* the one that completed last is stored.
C4_Witness ==
    /\ Len(attempts) = 2
    /\ Outstanding = {}
    /\ attempts[1].outcome = [kind |-> "thrown", value |-> ErrorObj(NetworkMsg)]
    /\ attempts[2].outcome = [kind |-> "thrown", value |-> ErrorObj(NetworkMsg)]
    /\ attempts[1].response = None
    /\ attempts[2].response.ok
    /\ error = Str(NetworkMsg)
    /\ loading = FALSE
    /\ unhandled = {}

(* C5 *)

\* C5: when the value thrown in the attempt that completed last has no
\* message text, error is a non-empty string (a generic message).
C5_GenericMessage ==
    (/\ completed # << >>
     /\ Last.outcome.kind = "thrown"
     /\ NoMessageText(Last.outcome.value)) =>
        (error.t = "string" /\ error.s # "")

(* C6 *)

\* The state the outcome o of one attempt describes on its own.
ReflectsAlone(o) ==
    /\ loading = FALSE
    /\ o.kind = "ok" => (data = o.value /\ error = Null)
    /\ o.kind = "notOk" => (error = Str(FixedMsg) /\ data = Null)
    /\ (o.kind = "thrown" /\ ~IsNullish(o.value)) =>
           (error = (IF o.value.t = "Error" THEN o.value.message ELSE Undefined)
            /\ data = Null)

\* C6: attempt A starts, attempt B starts before A resolves, B resolves
\* before A: once both have resolved, the state reflects A's outcome alone.
C6_LastResolvedWins ==
    \A a, b \in Ids :
        (/\ a < b
         /\ Outstanding = {}
         /\ LastId = a
         /\ DoneAt(b) < DoneAt(a)) =>
            ReflectsAlone(attempts[a].outcome)

(* C7 *)

\* C7: the step in which refetch is called leaves loading = true and the
\* request of the new attempt unresolved; no attempt completes in that step.
C7_RefetchStep ==
    (nRefetch' = nRefetch + 1) =>
        /\ loading' = TRUE
        /\ Len(attempts') = Len(attempts) + 1
        /\ attempts'[Len(attempts')].pc = "awaitFetch"
        /\ completed' = completed

\* C7: every call of refetch sets loading = true in the step of the call,
\* before the request it issues can resolve.
C7_RefetchSetsLoading == [][C7_RefetchStep]_vars

\* refetch was called after the first attempt had settled (loading was
\* false) and its request is still unresolved.
C7_Witness ==
    /\ nRefetch = 1
    /\ Len(attempts) = 2
    /\ attempts[1].pc = "done"
    /\ attempts[2].pc = "awaitFetch"
    /\ loading = TRUE

(* C8 *)

\* C8: once an attempt has completed and none is outstanding, loading is
\* false and the state is exactly one of Succeeded (data non-null, error
\* null) and Failed (error non-null).
C8_ExactlyOneOutcome ==
    (completed # << >> /\ Outstanding = {}) =>
        /\ loading = FALSE
        /\ (NonNull(data) /\ ~NonNull(error)) # NonNull(error)

(* C9 *)

\* C9: before any attempt the state is Pending (loading, no data, no
\* error); once the effect of the first commit has run, and as long as
\* neither refetch was called nor the locator changed, exactly one attempt
\* exists, for the given locator and with the options given or, when none
\* were given, an empty object: re-renders with the same locator start none.
C9_OneAttemptOnCreation ==
    /\ attempts = << >> => (loading = TRUE /\ data = Null /\ error = Null)
    /\ (nRefetch = 0 /\ nLocatorChanges = 0 /\ ~effectPending) =>
           /\ Len(attempts) = 1
           /\ attempts[1].url = url
           /\ attempts[1].options =
                  (IF optionsArg = Undefined THEN [t |-> "object", keys |-> {}]
                                             ELSE optionsArg)

C9_Witness ==
    /\ renders >= 1
    /\ nLocatorChanges = 0
    /\ nRefetch = 0
    /\ ~effectPending
    /\ Len(attempts) = 1
    /\ optionsArg = Undefined
    /\ attempts[1].options = EmptyObject

(* C10 *)

\* C10: a re-render with a different locator schedules the effect and
\* keeps every attempt; the effect then starts exactly one attempt, for the
\* new locator, and sets loading; an attempt of a previous locator that
\* completes stores its result all the same.
C10_LocatorChangeStep ==
    (url' # url) => (effectPending' /\ attempts' = attempts /\ ~effectPending)

C10_EffectStep ==
    (effectPending /\ ~effectPending') =>
        /\ Len(attempts') = Len(attempts) + 1
        /\ \A i \in Ids : attempts'[i] = attempts[i]
        /\ attempts'[Len(attempts')].url = url
        /\ attempts'[Len(attempts')].pc = "awaitFetch"
        /\ loading' = TRUE

C10_StaleStep ==
    \A i \in Ids :
        (Completes(i) /\ attempts[i].url # url) =>
            /\ loading' = FALSE
            /\ attempts'[i].outcome.kind = "ok" => data' = attempts'[i].outcome.value
            /\ attempts'[i].outcome.kind = "notOk" => error' = Str(FixedMsg)

C10_Scheduled ==
    (nLocatorChanges > 0 /\ ~effectPending) => \E i \in Ids : attempts[i].url = url

\* C10: a locator change starts exactly one attempt for the new locator and
\* sets loading; attempts of the previous locator are kept and still store
\* their result when they complete.
C10_LocatorChange ==
    /\ []C10_Scheduled
    /\ [][C10_LocatorChangeStep /\ C10_EffectStep /\ C10_StaleStep]_vars

\* The attempt of the new locator completed first, the attempt of the
\* previous locator completed after it and its payload is what data holds.
C10_Witness ==
    /\ Len(attempts) = 2
    /\ Outstanding = {}
    /\ attempts[1].url # url
    /\ attempts[2].url = url
    /\ completed = <<2, 1>>
    /\ attempts[2].outcome.kind = "ok"
    /\ attempts[1].outcome.kind = "ok"
    /\ data.t = "array"
    /\ data.from # url
    /\ data = attempts[1].outcome.value
    /\ loading = FALSE

(* C11 *)

\* The effect of the latest commit (the mount or a locator change) that
\* has not run yet: its request is still to be issued.
ScheduledEffects == IF effectPending THEN 1 ELSE 0

\* A step starts an attempt only as a call of refetch or as the effect of
\* the mount or of a locator change, and starts one; a step that completes
\* an attempt starts none; loading goes from false to true only in a step
\* that starts an attempt.
C11_StartStep ==
    /\ (Len(attempts') # Len(attempts)) =>
           /\ Len(attempts') = Len(attempts) + 1
           /\ completed' = completed
           /\ (nRefetch' = nRefetch + 1) \/ (effectPending /\ ~effectPending')
    /\ (completed' # completed) => Len(attempts') = Len(attempts)
    /\ (loading = FALSE /\ loading' = TRUE) => Len(attempts') = Len(attempts) + 1

\* One request per mount, per refetch call and per locator change, the
\* request of an effect being counted from the commit that schedules it.
C11_RequestCount ==
    Len(attempts) + ScheduledEffects = 1 + nRefetch + nLocatorChanges

\* C11: attempts are started, and loading goes from false to true, only by
\* refetch or a locator change, never by a completion; the number of
\* requests is 1 + (refetch calls) + (locator changes).
C11_NoAutomaticRetry == []C11_RequestCount /\ [][C11_StartStep]_vars

\* Two attempts failed (the mount and the one of a locator change) and no
\* third request was issued.
C11_Witness ==
    /\ Len(attempts) = 2
    /\ Outstanding = {}
    /\ Failed(attempts[1].outcome) /\ Failed(attempts[2].outcome)
    /\ nRefetch = 0
    /\ nLocatorChanges = 1
    /\ ~effectPending
    /\ loading = FALSE

(* C12 *)

\* refetch can be called in every state (up to the bound of the model on
\* the number of attempts).
C12_AlwaysEnabled ==
    (Len(attempts) + ScheduledEffects < MaxAttempts) => ENABLED Refetch

\* Every call of refetch adds one outstanding attempt, whatever is
\* outstanding already.
C12_RefetchStep ==
    (nRefetch' = nRefetch + 1) =>
        /\ Cardinality(Outstanding') = Cardinality(Outstanding) + 1
        /\ \A i \in Ids : attempts'[i] = attempts[i]

\* C12: refetch is enabled in every state and every call starts one more
\* attempt, also while earlier attempts are outstanding.
C12_NoDeduplication == []C12_AlwaysEnabled /\ [][C12_RefetchStep]_vars

\* refetch was called while the attempt of the mount was outstanding: two
\* attempts are in flight.
C12_Witness ==
    /\ nRefetch = 1
    /\ Cardinality(Outstanding) = 2
    /\ loading = TRUE

(* C13 *)

\* No step removes an attempt or moves it backwards: an attempt goes from
\* the request to the decode or to its end, and stays at its end.
C13_NoCancellationStep ==
    /\ Len(attempts') >= Len(attempts)
    /\ \A i \in Ids :
           /\ attempts'[i].url = attempts[i].url
           /\ attempts[i].pc = "done" => attempts'[i] = attempts[i]
           /\ attempts[i].pc = "awaitJson" => attempts'[i].pc \in {"awaitJson", "done"}

\* C13: with a transport that eventually responds or fails, every started
\* attempt eventually completes and, once no more attempts are started,
\* loading is false and stays false; no step cancels an attempt.  (No
\* attempt is ever removed, so "eventually none is outstanding, for ever"
\* says of every attempt ever started that it completes.)
C13_RunsToCompletion ==
    /\ <>[](loading = FALSE /\ Outstanding = {})
    /\ [][C13_NoCancellationStep]_vars

\* Two attempts were started and both ran to completion.
C13_Witness ==
    /\ Len(attempts) = 2
    /\ Len(completed) = 2
    /\ Outstanding = {}
    /\ loading = FALSE

(* C14 *)

\* Every attempt so far succeeded with the payload p.
AllReturned(p) == \A i \in Ids : attempts[i].outcome = [kind |-> "ok", value |-> p]

\* After n >= 1 successful refetch calls against a resource that returned p
\* every time, the state is the one after the first success.  (In Users the
\* calls cannot overlap: the button exists only while nothing is loading.)
C14_Converged ==
    \A p \in PayloadsOf(url) :
        (nRefetch >= 1 /\ Outstanding = {} /\ ~effectPending /\ AllReturned(p)) =>
            (data = p /\ loading = FALSE /\ error = Null)

\* A successful attempt that returns the payload already stored leaves
\* data and error as they were and loading false.
C14_SamePayloadStep ==
    \A i \in Ids :
        (/\ Completes(i)
         /\ attempts'[i].outcome.kind = "ok"
         /\ attempts'[i].outcome.value = data) =>
            (data' = data /\ error' = error /\ loading' = FALSE)

\* C14: repeated successful, non-overlapping refetch calls against a
\* resource that returns the same payload p leave data = p, loading = false
\* and error unchanged.
C14_RefetchIdempotent == []C14_Converged /\ [][C14_SamePayloadStep]_vars

\* The mount and two refetch calls all returned the same list.
C14_Witness ==
    /\ nRefetch = 2
    /\ Len(attempts) = 3
    /\ Outstanding = {}
    /\ AllReturned(List(UsersUrl, "v1"))
    /\ data = List(UsersUrl, "v1")
    /\ error = Null
    /\ loading = FALSE

(* C15 *)

\* C15: whenever Users takes the list branch (loading false, error falsy),
\* data is a list, so data.map is never called on null.
C15_ListBranchHasData == (UsersBranch = "list") => data.t = "array"

(* C18 *)

\* C18: in Users the refresh button exists only when nothing is in flight,
\* so at most one attempt is in flight in every state.
C18_AtMostOneInFlight ==
    /\ Cardinality(Outstanding) + ScheduledEffects <= 1
    /\ RefreshShown => (Outstanding = {} /\ ~effectPending)

\* The user refreshed twice; one attempt, the latest, is in flight.
C18_Witness ==
    /\ nRefetch = 2
    /\ Outstanding = {3}
    /\ loading = TRUE

(* C19 *)

\* C19: in the error view the re-trigger operation is available to the
\* user (a click that starts a new attempt), so that a later success can
\* bring the list back.
C19_RecoverableFromError ==
    (UsersBranch = "error" /\ nRefetch < MaxRefresh) => ENABLED UsersRefresh

\* What Users does instead: once the error view is shown, every later
\* state shows it.
C19_ErrorViewAbsorbing == [][UsersBranch = "error" => UsersBranch' = "error"]_vars

(* C16 *)

\* C16: no step clears a settled field: error, once non-null, stays
\* non-null; data, once non-null, stays non-null; a call of refetch changes
\* neither of them.
C16_NoFieldClearedStep ==
    /\ NonNull(error) => NonNull(error')
    /\ NonNull(data) => NonNull(data')
    /\ (nRefetch' = nRefetch + 1) => (data' = data /\ error' = error)

C16_NoFieldCleared == [][C16_NoFieldClearedStep]_vars

(* C17 *)

\* C17: whenever loading is false, no attempt is outstanding.
C17_LoadingTracksOutstanding == (loading = FALSE) => Outstanding = {}

====
